---------------------------- MODULE Spec2Model ----------------------------
(***************************************************************************)
(* A model of the regexer engine: parser.rs (pattern -> Ast), codegen.rs   *)
(* (Ast -> instruction sequence) and evaluator.rs (instruction sequence x  *)
(* input -> match / no match), driven by engine.rs do_matching.            *)
(*                                                                         *)
(* Characters are one-character strings.  Indices and addresses are        *)
(* zero-based as in the source; TLA+ sequences are one-based, so the       *)
(* element at source index k is s[k + 1].                                  *)
(***************************************************************************)
EXTENDS Integers, Sequences, FiniteSets, TLC

\* ------------------------------------------------------------------ bounds
\* Longest pattern handed to do_matching.
MaxPat == 3
\* Longest input line handed to do_matching.
MaxLine == 2

\* usize::MAX.  The counters of the bounded model stay far below it; the
\* largest integer TLC represents stands in for 2^64 - 1.
UsizeMax == 2147483647

\* Characters a pattern is drawn from: literals, the wildcard, the seven
\* syntax characters of parse_escape, and the two anchor characters.
PatChars == {"a", "b", ".", "+", "*", "?", "|", "(", ")", "\\", "^", "$"}
\* Characters an input line is drawn from.
LineChars == {"a", "b", ".", "\n"}

RECURSIVE Words(_, _)
Words(S, n) ==
    IF n = 0 THEN {<<>>}
    ELSE LET W == Words(S, n - 1)
         IN  W \cup {Append(w, c) : w \in {x \in W : Len(x) = n - 1}, c \in S}

Patterns == Words(PatChars, MaxPat)
Lines == Words(LineChars, MaxLine)

\* ------------------------------------------------------------- data model
\* parser.rs Ast, with the two anchor variants codegen.rs matches on.
AstChar(c) == [t |-> "Char", c |-> c]
AstPlus(e) == [t |-> "Plus", e |-> e]
AstStar(e) == [t |-> "Star", e |-> e]
AstQuestion(e) == [t |-> "Question", e |-> e]
AstOr(l, r) == [t |-> "Or", l |-> l, r |-> r]
AstSeq(v) == [t |-> "Seq", v |-> v]
AstDoller == [t |-> "Doller"]
AstHat == [t |-> "Hat"]
NoAst == [t |-> "None"]

\* engine.rs Instruction.
InstChar(c) == [op |-> "Char", c |-> c]
InstMatch == [op |-> "Match"]
InstJump(x) == [op |-> "Jump", x |-> x]
InstSplit(x, y) == [op |-> "Split", x |-> x, y |-> y]
InstMatchBegin == [op |-> "MatchBegin"]
InstMatchEnd == [op |-> "MatchEnd"]

\* The value do_matching returns: Ok(true), Ok(false), or one of the errors
\* of ParseError / CodeGenError / EvalError.  "None" while the call runs.
\* "StackOverflow" is not a value: it is the abort of the process when the
\* recursion of eval_depth never returns.
Res(kind, pos, c) == [kind |-> kind, pos |-> pos, c |-> c]
NoRes == Res("None", 0, "")
OkTrue == Res("OkTrue", 0, "")
OkFalse == Res("OkFalse", 0, "")
ErrInvalidEscape(pos, c) == Res("InvalidEscape", pos, c)
ErrInvalidRightParen(pos) == Res("InvalidRightParen", pos, "")
ErrNoPrev(pos) == Res("NoPrev", pos, "")
ErrNoRightParen == Res("NoRightParen", 0, "")
ErrEmpty == Res("Empty", 0, "")

\* helper::safe_add(dst, src, f): dst += src unless the sum overflows usize.
safe_add(x, y) == [ok |-> x <= UsizeMax - y, v |-> IF x <= UsizeMax - y THEN x + y ELSE x]

\* ------------------------------------------------------------------ state
VARIABLES
    expr,      \* do_matching's pattern, a sequence of characters
    line,      \* do_matching's input, a sequence of characters
    is_depth,  \* do_matching's strategy flag
    stage,     \* "parse" | "gen" | "eval" | "done": where do_matching is
    ran,       \* the stages do_matching has entered so far
    i,         \* parse: index of the next character of expr
    seq,       \* parse: the current Seq context
    seq_or,    \* parse: the current Or context
    stack,     \* parse: the saved contexts
    state,     \* parse: "Char" | "Escape"
    ast,       \* the Ast parse returned
    code,      \* the instructions gen_code returned
    genpc,     \* Generator.pc when gen_code returned
    holes,     \* the placeholders gen_code left unpatched (history)
    frames,    \* eval_depth: the active calls, outermost first
    ret,       \* eval_depth: the value the call that just ended returned
    result,    \* what do_matching returned
    file,      \* match_file: the lines reader.lines() yields
    lno,       \* match_file: index of the line the outer loop is at
    off,       \* match_file: the character offset the inner loop is at
    printed,   \* match_file: the lines written to standard output
    calls,     \* match_file: the calls of do_matching made so far (history)
    mfret      \* what match_file returned

\* match_file's state; no call of do_matching touches it.
fileVars == <<file, lno, off, printed, calls, mfret>>

vars == <<expr, line, is_depth, stage, ran, i, seq, seq_or, stack, state,
          ast, code, genpc, holes, frames, ret, result, fileVars>>

parseVars == <<i, seq, seq_or, stack, state>>

\* No file is being scanned: do_matching is called on its own.
NoFile ==
    /\ file = <<>> /\ lno = 0 /\ off = 0
    /\ printed = <<>> /\ calls = <<>> /\ mfret = NoRes

\* ----------------------------------------------------------------- parser
IsEscapable(c) == c \in {"\\", "(", ")", "|", "+", "*", "?"}

\* parse_escape(pos, c)
parse_escape(pos, c) ==
    IF IsEscapable(c)
    THEN [ok |-> TRUE, ast |-> AstChar(c), err |-> NoRes]
    ELSE [ok |-> FALSE, ast |-> NoAst, err |-> ErrInvalidEscape(pos, c)]

\* parse_plus_star_question that lets an operator with nothing before it pass.
parse_plus_star_question_lenient(s, ast_type, pos) ==
    [ok |-> TRUE,
     seq |-> IF Len(s) > 0
             THEN Append(SubSeq(s, 1, Len(s) - 1), [t |-> ast_type, e |-> s[Len(s)]])
             ELSE s,
     err |-> NoRes]

\* parse_plus_star_question(seq, ast_type, pos): wraps the last element of
\* seq, or fails with NoPrev(pos) when seq is empty.
parse_plus_star_question(s, ast_type, pos) ==
    IF Len(s) > 0
    THEN LET prev == s[Len(s)]
             node == CASE ast_type = "Plus" -> AstPlus(prev)
                       [] ast_type = "Star" -> AstStar(prev)
                       [] ast_type = "Question" -> AstQuestion(prev)
         IN  [ok |-> TRUE, seq |-> Append(SubSeq(s, 1, Len(s) - 1), node), err |-> NoRes]
    ELSE [ok |-> FALSE, seq |-> s, err |-> ErrNoPrev(pos)]

\* The loop of fold_or: ast = Or(s, ast) for s in rest taken last to first.
RECURSIVE FoldRev(_, _)
FoldRev(rest, acc) ==
    IF rest = <<>> THEN acc
    ELSE FoldRev(SubSeq(rest, 1, Len(rest) - 1), AstOr(rest[Len(rest)], acc))

\* fold_or without `seq_or.reverse()`: the loop takes the rest first to last.
RECURSIVE FoldFwd(_, _)
FoldFwd(rest, acc) ==
    IF rest = <<>> THEN acc ELSE FoldFwd(Tail(rest), AstOr(Head(rest), acc))
fold_or_unreversed(so) ==
    IF Len(so) > 1
    THEN [some |-> TRUE, ast |-> FoldFwd(SubSeq(so, 1, Len(so) - 1), so[Len(so)])]
    ELSE IF Len(so) = 1
         THEN [some |-> TRUE, ast |-> so[1]]
         ELSE [some |-> FALSE, ast |-> NoAst]

\* fold_or(seq_or): None for an empty list, the element of a one-element
\* list, and Or(a1, Or(a2, ... aN)) otherwise.
fold_or(so) ==
    IF Len(so) > 1
    THEN [some |-> TRUE, ast |-> FoldRev(SubSeq(so, 1, Len(so) - 1), so[Len(so)])]
    ELSE IF Len(so) = 1
         THEN [some |-> TRUE, ast |-> so[1]]
         ELSE [some |-> FALSE, ast |-> NoAst]

PsqOf(c) == CASE c = "+" -> "Plus" [] c = "*" -> "Star" [] c = "?" -> "Question"

\* The character the scan is at.
Cur == expr[i + 1]
Scanning == stage = "parse" /\ i < Len(expr)

\* parse returned Err(e): do_matching's `?` returns it at once.
ParseFail(e) ==
    /\ stage' = "done"
    /\ result' = e
    /\ UNCHANGED <<expr, line, is_depth, ran, ast, code, genpc, holes, frames, ret, fileVars>>

ParseGoOn ==
    /\ i' = i + 1
    /\ UNCHANGED <<expr, line, is_depth, stage, ran, ast, code, genpc, holes, frames, ret, result, fileVars>>

\* '+' | '*' | '?' in state Char.
ParsePsq ==
    /\ Scanning /\ state = "Char" /\ Cur \in {"+", "*", "?"}
    /\ LET r == parse_plus_star_question(seq, PsqOf(Cur), i)
       IN  IF r.ok
           THEN seq' = r.seq /\ ParseGoOn /\ UNCHANGED <<seq_or, stack, state>>
           ELSE ParseFail(r.err) /\ UNCHANGED parseVars

\* '(' in state Char: save the context and start an empty one.
ParseLeftParen ==
    /\ Scanning /\ state = "Char" /\ Cur = "("
    /\ stack' = Append(stack, [seq |-> seq, seq_or |-> seq_or])
    /\ seq' = <<>>
    /\ seq_or' = <<>>
    /\ ParseGoOn /\ UNCHANGED state

\* close_paren that pushes the group's Seq even when it is empty.
close_paren_pushes_empty(s, so, top) ==
    LET f == fold_or(Append(so, AstSeq(s)))
    IN  [seq |-> Append(top.seq, f.ast), seq_or |-> top.seq_or]

\* close_paren that leaves the group's finished alternatives in seq_or.
close_paren_leaks(s, so, top) ==
    LET so2 == IF Len(s) > 0 THEN Append(so, AstSeq(s)) ELSE so
        f == fold_or(so2)
    IN  [seq |-> IF f.some THEN Append(top.seq, f.ast) ELSE top.seq,
         seq_or |-> top.seq_or \o so]

\* The Some arm of `if let Some((mut prev, prev_or)) = stack.pop()`: the
\* contexts seq and seq_or that follow a ')' closing the group whose saved
\* context is top = (prev, prev_or).
close_paren(s, so, top) ==
    LET so2 == IF Len(s) > 0 THEN Append(so, AstSeq(s)) ELSE so
        f == fold_or(so2)
    IN  [seq |-> IF f.some THEN Append(top.seq, f.ast) ELSE top.seq,
         seq_or |-> top.seq_or]

\* ')' in state Char: fold the group and resume the saved context.
ParseRightParen ==
    /\ Scanning /\ state = "Char" /\ Cur = ")"
    /\ IF Len(stack) > 0
       THEN LET r == close_paren(seq, seq_or, stack[Len(stack)])
            IN  /\ stack' = SubSeq(stack, 1, Len(stack) - 1)
                /\ seq' = r.seq
                /\ seq_or' = r.seq_or
                /\ ParseGoOn /\ UNCHANGED state
       ELSE ParseFail(ErrInvalidRightParen(i)) /\ UNCHANGED parseVars

\* '|' in state Char.
ParseBar ==
    /\ Scanning /\ state = "Char" /\ Cur = "|"
    /\ IF Len(seq) = 0
       THEN ParseFail(ErrNoPrev(i)) /\ UNCHANGED parseVars
       ELSE /\ seq_or' = Append(seq_or, AstSeq(seq))
            /\ seq' = <<>>
            /\ ParseGoOn /\ UNCHANGED <<stack, state>>

\* '\\' in state Char.
ParseBackslash ==
    /\ Scanning /\ state = "Char" /\ Cur = "\\"
    /\ state' = "Escape"
    /\ ParseGoOn /\ UNCHANGED <<seq, seq_or, stack>>

\* Any other character in state Char is a literal.
ParseLiteral ==
    /\ Scanning /\ state = "Char"
    /\ Cur \notin {"+", "*", "?", "(", ")", "|", "\\"}
    /\ seq' = Append(seq, AstChar(Cur))
    /\ ParseGoOn /\ UNCHANGED <<seq_or, stack, state>>

\* Any character in state Escape.
ParseEscape ==
    /\ Scanning /\ state = "Escape"
    /\ LET r == parse_escape(i, Cur)
       IN  IF r.ok
           THEN /\ seq' = Append(seq, r.ast)
                /\ state' = "Char"
                /\ ParseGoOn /\ UNCHANGED <<seq_or, stack>>
           ELSE ParseFail(r.err) /\ UNCHANGED parseVars

\* parse_end without the check for unclosed groups.
parse_end_unchecked(st, s, so) ==
    LET so2 == IF Len(s) > 0 THEN Append(so, AstSeq(s)) ELSE so
        f == fold_or(so2)
    IN  IF f.some THEN [ok |-> TRUE, ast |-> f.ast, err |-> NoRes]
        ELSE [ok |-> FALSE, ast |-> NoAst, err |-> ErrEmpty]

\* What parse returns once the scan is over.
parse_end(st, s, so) ==
    IF Len(st) > 0 THEN [ok |-> FALSE, ast |-> NoAst, err |-> ErrNoRightParen]
    ELSE LET so2 == IF Len(s) > 0 THEN Append(so, AstSeq(s)) ELSE so
             f == fold_or(so2)
         IN  IF f.some THEN [ok |-> TRUE, ast |-> f.ast, err |-> NoRes]
             ELSE [ok |-> FALSE, ast |-> NoAst, err |-> ErrEmpty]

\* The end of the scan.
ParseEnd ==
    /\ stage = "parse" /\ i = Len(expr)
    /\ LET r == parse_end(stack, seq, seq_or)
       IN  IF r.ok
           THEN /\ ast' = r.ast
                /\ stage' = "gen"
                /\ ran' = ran \cup {"gen"}
                /\ UNCHANGED <<expr, line, is_depth, code, genpc, holes, frames, ret, result, fileVars>>
           ELSE ParseFail(r.err)
    /\ UNCHANGED parseVars


\* ---------------------------------------------------------- code generator
\* Generator { pc, insts }, with the error a `?` carries out (err, "" for
\* none) and holes: the indices of the instructions pushed with a
\* placeholder address that no patch has written yet (a history of the
\* pass, not a field of the source).
NewGenerator == [pc |-> 0, insts |-> <<>>, err |-> "", holes |-> {}]
GenOk(g) == g.err = ""
GenFail(g, e) == [g EXCEPT !.err = e]

\* Generator::inc_pc
inc_pc(g) ==
    LET r == safe_add(g.pc, 1)
    IN  IF r.ok THEN [g EXCEPT !.pc = r.v] ELSE GenFail(g, "PCOverFlow")

\* self.insts.push(inst)
Push(g, inst) == [g EXCEPT !.insts = Append(@, inst)]
\* self.insts.push(inst), inst holding the placeholder 0
PushHole(g, inst) ==
    [g EXCEPT !.insts = Append(@, inst), !.holes = @ \cup {Len(g.insts)}]
\* self.insts.get(addr) is Some(inst) with inst.op = op
HasOpAt(g, addr, op) == addr < Len(g.insts) /\ g.insts[addr + 1].op = op
\* *l = self.pc for field fld of the instruction at addr
Patch(g, addr, fld) ==
    [g EXCEPT !.insts[addr + 1][fld] = g.pc, !.holes = @ \ {addr}]

RECURSIVE gen_expr(_, _)

\* Generator::gen_char
gen_char(g, c) == inc_pc(Push(g, InstChar(c)))

\* Generator::gen_or
gen_or(g, e1, e2) ==
    LET split_addr == g.pc
        g1 == inc_pc(g)
        g2 == PushHole(g1, InstSplit(g1.pc, 0))
        g3 == gen_expr(g2, e1)
        jmp_addr == g3.pc
        g4 == PushHole(g3, InstJump(0))
        g5 == inc_pc(g4)
        g6 == Patch(g5, split_addr, "y")
        g7 == gen_expr(g6, e2)
    IN  IF ~GenOk(g1) THEN g1
        ELSE IF ~GenOk(g3) THEN g3
        ELSE IF ~GenOk(g5) THEN g5
        ELSE IF ~HasOpAt(g5, split_addr, "Split") THEN GenFail(g5, "FailOr")
        ELSE IF ~GenOk(g7) THEN g7
        ELSE IF ~HasOpAt(g7, jmp_addr, "Jump") THEN GenFail(g7, "FailOr")
        ELSE Patch(g7, jmp_addr, "x")

\* Generator::gen_plus
gen_plus(g, e) ==
    LET addr == g.pc
        g1 == gen_expr(g, e)
        g2 == inc_pc(g1)
    IN  IF ~GenOk(g1) THEN g1
        ELSE IF ~GenOk(g2) THEN g2
        ELSE Push(g2, InstSplit(addr, g2.pc))

\* Generator::gen_star
gen_star(g, e) ==
    LET addr == g.pc
        g1 == inc_pc(g)
        g2 == PushHole(g1, InstSplit(g1.pc, 0))
        g3 == gen_expr(g2, e)
        g4 == Push(g3, InstJump(addr))
        g5 == inc_pc(g4)
    IN  IF ~GenOk(g1) THEN g1
        ELSE IF ~GenOk(g3) THEN g3
        ELSE IF ~GenOk(g5) THEN g5
        ELSE IF ~HasOpAt(g5, addr, "Split") THEN GenFail(g5, "FailStar")
        ELSE Patch(g5, addr, "y")

\* Generator::gen_question
gen_question(g, e) ==
    LET split_addr == g.pc
        g1 == inc_pc(g)
        addr == g1.pc
        g2 == PushHole(g1, InstSplit(addr, 0))
        g3 == gen_expr(g2, e)
    IN  IF ~GenOk(g1) THEN g1
        ELSE IF ~GenOk(g3) THEN g3
        ELSE IF ~HasOpAt(g3, split_addr, "Split") THEN GenFail(g3, "FailQuestion")
        ELSE Patch(g3, split_addr, "y")

\* Generator::gen_doller: pushes MatchEnd; pc is left as it is.
gen_doller(g) == Push(g, InstMatchEnd)

\* Generator::gen_hat: pushes MatchBegin; pc is left as it is.
gen_hat(g) == Push(g, InstMatchBegin)

\* Generator::gen_seq
RECURSIVE gen_seq(_, _)
gen_seq(g, exprs) ==
    IF exprs = <<>> THEN g
    ELSE LET g1 == gen_expr(g, Head(exprs))
         IN  IF ~GenOk(g1) THEN g1 ELSE gen_seq(g1, Tail(exprs))

\* Generator::gen_expr
gen_expr(g, a) ==
    CASE a.t = "Char" -> gen_char(g, a.c)
      [] a.t = "Or" -> gen_or(g, a.l, a.r)
      [] a.t = "Plus" -> gen_plus(g, a.e)
      [] a.t = "Star" -> gen_star(g, a.e)
      [] a.t = "Question" -> gen_question(g, a.e)
      [] a.t = "Seq" -> gen_seq(g, a.v)
      [] a.t = "Doller" -> gen_doller(g)
      [] a.t = "Hat" -> gen_hat(g)

\* Generator::gen_code, and the gen_code that runs it on a fresh Generator.
gen_code(a) ==
    LET g1 == gen_expr(NewGenerator, a)
        g2 == inc_pc(g1)
    IN  IF ~GenOk(g1) THEN g1
        ELSE IF ~GenOk(g2) THEN g2
        ELSE Push(g2, InstMatch)

\* do_matching: let code = codegen::gen_code(&ast)?
GenCode ==
    /\ stage = "gen"
    /\ LET g == gen_code(ast)
       IN  IF GenOk(g)
           THEN /\ code' = g.insts
                /\ genpc' = g.pc
                /\ holes' = g.holes
                /\ stage' = "call"
                /\ UNCHANGED result
           ELSE /\ stage' = "done"
                /\ result' = Res(g.err, 0, "")
                /\ UNCHANGED <<code, genpc, holes>>
    /\ UNCHANGED <<expr, line, is_depth, ran, ast, frames, ret, fileVars>>
    /\ UNCHANGED parseVars

\* ---------------------------------------------------------------- evaluator
\* One active call of eval_depth: its pc, sp, pos and init_position_state
\* (ips), the arguments it was called with (epc, esp), and ph: "run", or
\* "wait1" / "wait2" while the first / second call of a Split is running.
NewFrame(pc, sp) ==
    [pc |-> pc, sp |-> sp, pos |-> 0, ips |-> FALSE, ph |-> "run",
     epc |-> pc, esp |-> sp]

\* What one pass of eval_depth's loop does on instruction inst: k = "go"
\* (the loop goes on with pc, sp, pos, ips), "ret" (the call returns v) or
\* "split" (Instruction::Split: the two recursive calls).
Go(pc, sp, pos, ips) == [k |-> "go", pc |-> pc, sp |-> sp, pos |-> pos, ips |-> ips, v |-> "none"]
Ret(v) == [k |-> "ret", pc |-> 0, sp |-> 0, pos |-> 0, ips |-> FALSE, v |-> v]
Fork == [k |-> "split", pc |-> 0, sp |-> 0, pos |-> 0, ips |-> FALSE, v |-> "none"]

\* eval_char that accepts whatever character the input holds at sp.
eval_char_any(c, ln, f) ==
    IF f.sp < Len(ln)
    THEN Go(f.pc + 1, f.sp + 1, f.pos + 1, FALSE)
    ELSE Ret("false")

\* eval_char that advances pc and leaves sp where it is.
eval_char_nosp(c, ln, f) ==
    IF f.sp < Len(ln) /\ (c = "." \/ c = ln[f.sp + 1])
    THEN Go(f.pc + 1, f.sp, f.pos + 1, FALSE)
    ELSE Ret("false")

\* eval_char whose wildcard stops at a newline.
eval_char_dot_line(c, ln, f) ==
    IF f.sp < Len(ln) /\ ((c = "." /\ ln[f.sp + 1] # "\n") \/ c = ln[f.sp + 1])
    THEN Go(f.pc + 1, f.sp + 1, f.pos + 1, FALSE)
    ELSE Ret("false")

\* Instruction::Char(c)
eval_char(c, ln, f) ==
    IF f.sp < Len(ln)
    THEN LET sp_c == ln[f.sp + 1]
             ips1 == IF c = "\n" THEN TRUE ELSE f.ips
             npc == safe_add(f.pc, 1)
             nsp == safe_add(f.sp, 1)
             npos == safe_add(f.pos, 1)
         IN  IF c = "." \/ c = sp_c
             THEN IF ~npc.ok THEN Ret("EvalPCOverFlow")
                  ELSE IF ~nsp.ok THEN Ret("SPOverFlow")
                  ELSE IF ips1 THEN Go(npc.v, nsp.v, 0, FALSE)
                  ELSE IF ~npos.ok THEN Ret("POSOvreFlow")
                  ELSE Go(npc.v, nsp.v, npos.v, FALSE)
             ELSE Ret("false")
    ELSE Ret("false")

\* Instruction::MatchBegin
eval_match_begin(f) ==
    LET npc == safe_add(f.pc, 1)
    IN  IF f.pos = 0
        THEN IF npc.ok THEN Go(npc.v, f.sp, f.pos, f.ips) ELSE Ret("EvalPCOverFlow")
        ELSE Ret("false")

\* Instruction::MatchEnd
eval_match_end(ln, f) ==
    LET npc == safe_add(f.pc, 1)
        next == IF npc.ok THEN Go(npc.v, f.sp, f.pos, f.ips) ELSE Ret("EvalPCOverFlow")
    IN  IF f.sp < Len(ln)
        THEN IF ln[f.sp + 1] = "\n" THEN next ELSE Ret("false")
        ELSE IF f.pos = Len(ln) THEN next ELSE Ret("false")

\* The body of eval_depth's loop.
eval_step(inst, ln, f) ==
    IF f.pc >= Len(inst) THEN Ret("InvalidPC")
    ELSE LET n == inst[f.pc + 1]
         IN  CASE n.op = "Char" -> eval_char(n.c, ln, f)
               [] n.op = "Match" -> Ret("true")
               [] n.op = "Jump" -> Go(n.x, f.sp, f.pos, f.ips)
               [] n.op = "Split" -> Fork
               [] n.op = "MatchBegin" -> eval_match_begin(f)
               [] n.op = "MatchEnd" -> eval_match_end(ln, f)

\* eval_width that reports a match.
eval_width_true(inst, ln, pc, sp) == "true"

\* eval_width
eval_width(inst, ln, pc, sp) == "false"

\* A call eval_depth(inst, line, pc, sp) made while a call with the same
\* arguments is active repeats that call's steps, makes the same call again
\* and never returns: the recursion ends only when the thread's stack is
\* used up and the process is aborted.
Recurses(fs, pc, sp) == \E k \in 1..Len(fs) : fs[k].epc = pc /\ fs[k].esp = sp

Top == frames[Len(frames)]
Running == stage = "eval" /\ ret = "none" /\ frames # <<>> /\ Top.ph = "run"

\* The recursive call eval_depth(inst, line, pc, sp) from the call on top of
\* frames, which waits in phase ph.
CallFrom(ph, pc, sp) ==
    IF Recurses(frames, pc, sp)
    THEN /\ stage' = "done"
         /\ result' = Res("StackOverflow", 0, "")
         /\ UNCHANGED <<frames, ret>>
    ELSE /\ frames' = Append([frames EXCEPT ![Len(frames)].ph = ph], NewFrame(pc, sp))
         /\ ret' = "none"
         /\ UNCHANGED <<stage, result>>

evalFrame == <<expr, line, is_depth, ran, ast, code, genpc, holes, fileVars>>

\* do_matching's call of eval, for an input line and a strategy:
\* eval_depth(inst, line, 0, 0) or eval_width(inst, line, 0, 0).
EvalCall ==
    /\ stage = "call"
    /\ \E ln \in Lines, d \in BOOLEAN :
        /\ line' = ln
        /\ is_depth' = d
        /\ IF d
           THEN /\ frames' = <<NewFrame(0, 0)>>
                /\ ret' = "none"
           ELSE /\ frames' = <<>>
                /\ ret' = eval_width(code, ln, 0, 0)
    /\ stage' = "eval"
    /\ ran' = ran \cup {"eval"}
    /\ UNCHANGED <<expr, ast, code, genpc, holes, result, fileVars>>
    /\ UNCHANGED parseVars

\* One pass of the loop of the innermost call that does not reach a Split.
EvalStep ==
    /\ Running
    /\ LET o == eval_step(code, line, Top)
       IN  /\ o.k # "split"
           /\ IF o.k = "go"
              THEN /\ frames' = [frames EXCEPT ![Len(frames)] =
                                    [@ EXCEPT !.pc = o.pc, !.sp = o.sp, !.pos = o.pos, !.ips = o.ips]]
                   /\ ret' = "none"
              ELSE /\ frames' = SubSeq(frames, 1, Len(frames) - 1)
                   /\ ret' = o.v
    /\ UNCHANGED <<stage, result>>
    /\ UNCHANGED evalFrame /\ UNCHANGED parseVars

\* Instruction::Split(addr1, addr2): the call eval_depth(inst, line, addr1, sp).
EvalSplit ==
    /\ Running
    /\ eval_step(code, line, Top).k = "split"
    /\ CallFrom("wait1", code[Top.pc + 1].x, Top.sp)
    /\ UNCHANGED evalFrame /\ UNCHANGED parseVars

\* split_after that also makes the second call when the first one failed
\* with an error.
split_after_retry(ph, v) ==
    IF ph = "wait1" /\ v # "true" THEN "second" ELSE "return"

\* A call made by a Split returned v: after the first call, true and errors
\* end the caller and false makes the second call; after the second call
\* the caller returns what it returned.
split_after(ph, v) ==
    IF ph = "wait1" /\ v = "false" THEN "second" ELSE "return"

EvalReturn ==
    /\ stage = "eval" /\ ret # "none" /\ frames # <<>>
    /\ IF split_after(Top.ph, ret) = "second"
       THEN CallFrom("wait2", code[Top.pc + 1].y, Top.sp)
       ELSE /\ frames' = SubSeq(frames, 1, Len(frames) - 1)
            /\ UNCHANGED <<ret, stage, result>>
    /\ UNCHANGED evalFrame /\ UNCHANGED parseVars

\* eval returned: do_matching returns Ok(v) or the EvalError.
eval_result(v) ==
    CASE v = "true" -> OkTrue
      [] v = "false" -> OkFalse
      [] OTHER -> Res(v, 0, "")

EvalDone ==
    /\ stage = "eval" /\ ret # "none" /\ frames = <<>>
    /\ stage' = "done"
    /\ result' = eval_result(ret)
    /\ UNCHANGED <<frames, ret>>
    /\ UNCHANGED evalFrame /\ UNCHANGED parseVars

\* ------------------------------------------------------------ do_matching
Init ==
    /\ expr \in Patterns
    /\ line = <<>>
    /\ is_depth = TRUE
    /\ stage = "parse"
    /\ ran = {"parse"}
    /\ i = 0
    /\ seq = <<>>
    /\ seq_or = <<>>
    /\ stack = <<>>
    /\ state = "Char"
    /\ ast = NoAst
    /\ code = <<>>
    /\ genpc = 0
    /\ holes = {}
    /\ frames = <<>>
    /\ ret = "none"
    /\ result = NoRes
    /\ NoFile

Next ==
    \/ ParsePsq
    \/ ParseLeftParen
    \/ ParseRightParen
    \/ ParseBar
    \/ ParseBackslash
    \/ ParseLiteral
    \/ ParseEscape
    \/ ParseEnd
    \/ GenCode
    \/ EvalCall
    \/ EvalStep
    \/ EvalSplit
    \/ EvalReturn
    \/ EvalDone

Spec == Init /\ [][Next]_vars


\* ------------------------------------------------------------ parse alone
\* Longest pattern handed to parse on its own.
MaxParsePat == 4

InitParse ==
    /\ expr \in Words(PatChars, MaxParsePat)
    /\ line = <<>>
    /\ is_depth = TRUE
    /\ stage = "parse"
    /\ ran = {"parse"}
    /\ i = 0
    /\ seq = <<>>
    /\ seq_or = <<>>
    /\ stack = <<>>
    /\ state = "Char"
    /\ ast = NoAst
    /\ code = <<>>
    /\ genpc = 0
    /\ holes = {}
    /\ frames = <<>>
    /\ ret = "none"
    /\ result = NoRes
    /\ NoFile

NextParse ==
    \/ ParsePsq
    \/ ParseLeftParen
    \/ ParseRightParen
    \/ ParseBar
    \/ ParseBackslash
    \/ ParseLiteral
    \/ ParseEscape
    \/ ParseEnd

SpecParse == InitParse /\ [][NextParse]_vars

\* ------------------------------------------------- parse alone, groups
\* Longest pattern of groups, alternations and stars handed to parse.
MaxGroupPat == 6
GroupChars == {"a", "b", "(", ")", "|", "*"}

InitGroup ==
    /\ expr \in Words(GroupChars, MaxGroupPat)
    /\ line = <<>>
    /\ is_depth = TRUE
    /\ stage = "parse"
    /\ ran = {"parse"}
    /\ i = 0
    /\ seq = <<>>
    /\ seq_or = <<>>
    /\ stack = <<>>
    /\ state = "Char"
    /\ ast = NoAst
    /\ code = <<>>
    /\ genpc = 0
    /\ holes = {}
    /\ frames = <<>>
    /\ ret = "none"
    /\ result = NoRes
    /\ NoFile

NextGroup ==
    \/ ParsePsq
    \/ ParseLeftParen
    \/ ParseRightParen
    \/ ParseBar
    \/ ParseLiteral
    \/ ParseEnd

SpecGroup == InitGroup /\ [][NextGroup]_vars

\* ------------------------------------------------------- gen_code alone
\* Most nodes of an Ast handed to gen_code on its own.
MaxNodes == 4

\* The Asts of exactly n nodes over the leaves Char('a'), Hat and Doller.
RECURSIVE AstsOfSize(_)
RECURSIVE AstSeqsOfSize(_)
\* The non-empty sequences of Asts of m nodes in all.
AstSeqsOfSize(m) ==
    UNION {IF k = m
           THEN {<<a>> : a \in AstsOfSize(k)}
           ELSE {<<a>> \o r : a \in AstsOfSize(k), r \in AstSeqsOfSize(m - k)}
           : k \in 1..m}
AstsOfSize(n) ==
    IF n = 1 THEN {AstChar("a"), AstHat, AstDoller}
    ELSE LET E == AstsOfSize(n - 1)
         IN  {AstPlus(e) : e \in E} \cup {AstStar(e) : e \in E}
                \cup {AstQuestion(e) : e \in E}
                \cup UNION {{AstOr(l, r) : l \in AstsOfSize(k), r \in AstsOfSize(n - 1 - k)}
                            : k \in 1..(n - 2)}
                \cup {AstSeq(v) : v \in AstSeqsOfSize(n - 1)}
AstsUpTo(m) == UNION {AstsOfSize(n) : n \in 1..m}

InitGen ==
    /\ expr = <<>>
    /\ line = <<>>
    /\ is_depth = TRUE
    /\ stage = "gen"
    /\ ran = {"gen"}
    /\ i = 0
    /\ seq = <<>>
    /\ seq_or = <<>>
    /\ stack = <<>>
    /\ state = "Char"
    /\ ast \in AstsUpTo(MaxNodes)
    /\ code = <<>>
    /\ genpc = 0
    /\ holes = {}
    /\ frames = <<>>
    /\ ret = "none"
    /\ result = NoRes
    /\ NoFile

NextGen == GenCode

SpecGen == InitGen /\ [][NextGen]_vars

\* ------------------------------------------------------- fold_or alone
\* Most alternatives in a list handed to fold_or on its own.
MaxAlts == 4
\* The alternatives of such a list: one-character sequences, as ParseBar
\* and parse_end push them.
FoldAlts == {AstSeq(<<AstChar(c)>>) : c \in {"a", "b", "."}}

InitFold ==
    /\ expr = <<>>
    /\ line = <<>>
    /\ is_depth = TRUE
    /\ stage = "fold"
    /\ ran = {"fold"}
    /\ i = 0
    /\ seq = <<>>
    /\ seq_or \in Words(FoldAlts, MaxAlts)
    /\ stack = <<>>
    /\ state = "Char"
    /\ ast = NoAst
    /\ code = <<>>
    /\ genpc = 0
    /\ holes = {}
    /\ frames = <<>>
    /\ ret = "none"
    /\ result = NoRes
    /\ NoFile

\* fold_or(seq_or): ast takes what it returns, NoAst for None.
FoldOr ==
    /\ stage = "fold"
    /\ ast' = fold_or(seq_or).ast
    /\ stage' = "done"
    /\ UNCHANGED <<expr, line, is_depth, ran, code, genpc, holes, frames, ret, result, fileVars>>
    /\ UNCHANGED parseVars

NextFold == FoldOr

SpecFold == InitFold /\ [][NextFold]_vars

\* ------------------------------------------------------------ eval alone
\* Longest instruction sequence handed to eval on its own, and the largest
\* address in it (one past the last index of the longest sequence).
MaxProg == 2
\* The instructions of such a sequence.
Insts(n) ==
    {InstChar("a"), InstMatch, InstMatchBegin, InstMatchEnd}
        \cup {InstJump(x) : x \in 0..n}
        \cup {InstSplit(x, y) : x \in 0..n, y \in 0..n}
Programs(n) == Words(Insts(n), n)

InitEval ==
    /\ expr = <<>>
    /\ line = <<>>
    /\ is_depth = TRUE
    /\ stage = "call"
    /\ ran = {}
    /\ i = 0
    /\ seq = <<>>
    /\ seq_or = <<>>
    /\ stack = <<>>
    /\ state = "Char"
    /\ ast = NoAst
    /\ code \in Programs(MaxProg)
    /\ genpc = Len(code)
    /\ holes = {}
    /\ frames = <<>>
    /\ ret = "none"
    /\ result = NoRes
    /\ NoFile

NextEval ==
    \/ EvalCall
    \/ EvalStep
    \/ EvalSplit
    \/ EvalReturn
    \/ EvalDone

SpecEval == InitEval /\ [][NextEval]_vars

\* ------------------------------------------------ do_matching as a function
\* parse(expr) from character index k on, with the accumulators seq (s) and
\* seq_or (so), the stack st and the scanner state: the arms the Parse
\* actions take one at a time, composed to the end of the pattern.
RECURSIVE parse_from(_, _, _, _, _, _)
parse_from(p, k, s, so, st, state0) ==
    IF k = Len(p) THEN parse_end(st, s, so)
    ELSE LET c == p[k + 1]
             fail(e) == [ok |-> FALSE, ast |-> NoAst, err |-> e]
         IN  IF state0 = "Escape"
             THEN LET r == parse_escape(k, c)
                  IN  IF r.ok THEN parse_from(p, k + 1, Append(s, r.ast), so, st, "Char")
                      ELSE fail(r.err)
             ELSE CASE c \in {"+", "*", "?"} ->
                         LET r == parse_plus_star_question(s, PsqOf(c), k)
                         IN  IF r.ok THEN parse_from(p, k + 1, r.seq, so, st, "Char")
                             ELSE fail(r.err)
                    [] c = "(" ->
                         parse_from(p, k + 1, <<>>, <<>>,
                                    Append(st, [seq |-> s, seq_or |-> so]), "Char")
                    [] c = ")" ->
                         IF Len(st) > 0
                         THEN LET r == close_paren(s, so, st[Len(st)])
                              IN  parse_from(p, k + 1, r.seq, r.seq_or,
                                             SubSeq(st, 1, Len(st) - 1), "Char")
                         ELSE fail(ErrInvalidRightParen(k))
                    [] c = "|" ->
                         IF Len(s) = 0 THEN fail(ErrNoPrev(k))
                         ELSE parse_from(p, k + 1, <<>>, Append(so, AstSeq(s)), st, "Char")
                    [] c = "\\" -> parse_from(p, k + 1, s, so, st, "Escape")
                    [] OTHER -> parse_from(p, k + 1, Append(s, AstChar(c)), so, st, "Char")
parse(p) == parse_from(p, 0, <<>>, <<>>, <<>>, "Char")

\* eval_depth: the loop of the call whose state is f, with act the
\* arguments (pc, sp) of the calls that are active, this one included.  A
\* call with the arguments of an active call never returns ("StackOverflow").
\* (For the programs of gen_code, in which every backward Jump leads to a
\* Split: a lone Jump(0) would spin inside one call.)
RECURSIVE eval_loop(_, _, _, _)
eval_loop(inst, ln, f, act) ==
    LET o == eval_step(inst, ln, f)
        call(pc, sp) ==
            IF <<pc, sp>> \in act THEN "StackOverflow"
            ELSE eval_loop(inst, ln, NewFrame(pc, sp), act \cup {<<pc, sp>>})
    IN  CASE o.k = "go" ->
                eval_loop(inst, ln, [f EXCEPT !.pc = o.pc, !.sp = o.sp,
                                              !.pos = o.pos, !.ips = o.ips], act)
          [] o.k = "ret" -> o.v
          [] o.k = "split" ->
                LET r1 == call(inst[f.pc + 1].x, f.sp)
                IN  IF split_after("wait1", r1) = "second"
                    THEN call(inst[f.pc + 1].y, f.sp)
                    ELSE r1
eval_depth(inst, ln, pc, sp) == eval_loop(inst, ln, NewFrame(pc, sp), {<<pc, sp>>})
eval(inst, ln, d) ==
    IF d THEN eval_depth(inst, ln, 0, 0) ELSE eval_width(inst, ln, 0, 0)

\* do_matching(expr, line, is_depth): what the call returns, or
\* "StackOverflow" when it does not return.
do_matching(e, ln, d) ==
    LET a == parse(e)
    IN  IF ~a.ok THEN a.err
        ELSE LET g == gen_code(a.ast)
             IN  IF ~GenOk(g) THEN Res(g.err, 0, "")
                 ELSE eval_result(eval(g.insts, ln, d))

\* -------------------------------------------------------------- match_file
\* The file is open and its lines are read without an I/O error;
\* engine::print writes the pattern and returns Ok.
\* Longest pattern, most lines and longest line handed to match_file.
MaxFilePat == 3
MaxFileLines == 2
MaxFileLine == 2
FilePatChars == {"a", "*", "("}
FileChars == {"a", "b"}
Files(n, k) == Words(Words(FileChars, k), n)
\* Ok(())
OkUnit == Res("Ok", 0, "")

\* match_file_after that prints the line and goes on to the next offset.
match_file_after_no_break(r) ==
    CASE r = OkTrue -> [print |-> TRUE, go |-> "next"]
      [] r = OkFalse -> [print |-> FALSE, go |-> "next"]
      [] OTHER -> [print |-> FALSE, go |-> "return"]

\* `if engine::do_matching(expr, &line[i..], true)? { println!; break }`:
\* what the inner loop does once the call returned r.  A call that does
\* not return ("StackOverflow") ends match_file with the process.
match_file_after(r) ==
    CASE r = OkTrue -> [print |-> TRUE, go |-> "break"]
      [] r = OkFalse -> [print |-> FALSE, go |-> "next"]
      [] OTHER -> [print |-> FALSE, go |-> "return"]

InFile == stage = "file" /\ mfret = NoRes
doVars == <<stage, ran, ast, code, genpc, holes, frames, ret>>

\* One pass of the inner loop: do_matching on the rest of the line from off.
MatchFileAttempt ==
    /\ InFile /\ lno < Len(file) /\ off < Len(file[lno + 1])
    /\ LET l == file[lno + 1]
           s == SubSeq(l, off + 1, Len(l))
           r == do_matching(expr, s, TRUE)
           a == match_file_after(r)
       IN  /\ line' = s
           /\ is_depth' = TRUE
           /\ result' = r
           /\ calls' = Append(calls, [lno |-> lno, off |-> off, r |-> r])
           /\ printed' = IF a.print THEN Append(printed, l) ELSE printed
           /\ CASE a.go = "break" -> lno' = lno + 1 /\ off' = 0 /\ mfret' = mfret
                [] a.go = "next" -> lno' = lno /\ off' = off + 1 /\ mfret' = mfret
                [] a.go = "return" -> lno' = lno /\ off' = off /\ mfret' = r
    /\ UNCHANGED <<expr, file>> /\ UNCHANGED doVars /\ UNCHANGED parseVars

\* The inner loop is over with no match: the outer loop takes the next line.
MatchFileNextLine ==
    /\ InFile /\ lno < Len(file) /\ off = Len(file[lno + 1])
    /\ lno' = lno + 1
    /\ off' = 0
    /\ UNCHANGED <<expr, line, is_depth, result, file, printed, calls, mfret>>
    /\ UNCHANGED doVars /\ UNCHANGED parseVars

\* The outer loop is over: Ok(()).
MatchFileReturn ==
    /\ InFile /\ lno = Len(file)
    /\ mfret' = OkUnit
    /\ UNCHANGED <<expr, line, is_depth, result, file, lno, off, printed, calls>>
    /\ UNCHANGED doVars /\ UNCHANGED parseVars

InitFile ==
    /\ expr \in Words(FilePatChars, MaxFilePat)
    /\ line = <<>>
    /\ is_depth = TRUE
    /\ stage = "file"
    /\ ran = {}
    /\ i = 0
    /\ seq = <<>>
    /\ seq_or = <<>>
    /\ stack = <<>>
    /\ state = "Char"
    /\ ast = NoAst
    /\ code = <<>>
    /\ genpc = 0
    /\ holes = {}
    /\ frames = <<>>
    /\ ret = "none"
    /\ result = NoRes
    /\ file \in Files(MaxFileLines, MaxFileLine)
    /\ lno = 0
    /\ off = 0
    /\ printed = <<>>
    /\ calls = <<>>
    /\ mfret = NoRes

NextFile ==
    \/ MatchFileAttempt
    \/ MatchFileNextLine
    \/ MatchFileReturn

SpecFile == InitFile /\ [][NextFile]_vars

\* ------------------------------------------------------ reference notions
\* The language of an Ast, as the set of offsets at which a match of a that
\* starts at offset k of s can end ('.' stands for any one character).
RECURSIVE Ends(_, _, _)
RECURSIVE EndsSeq(_, _, _)
RECURSIVE EndsRepeat(_, _, _)
EndsFrom(a, s, K) == UNION {Ends(a, s, k) : k \in K}
EndsSeq(v, s, K) ==
    IF v = <<>> THEN K ELSE EndsSeq(Tail(v), s, EndsFrom(Head(v), s, K))
\* One or more repetitions of a from the offsets K.
EndsRepeat(a, s, K) ==
    LET R == K \cup EndsFrom(a, s, K)
    IN  IF R = K THEN K ELSE EndsRepeat(a, s, R)
Ends(a, s, k) ==
    CASE a.t = "Char" ->
            IF k < Len(s) /\ (a.c = "." \/ s[k + 1] = a.c) THEN {k + 1} ELSE {}
      [] a.t = "Seq" -> EndsSeq(a.v, s, {k})
      [] a.t = "Or" -> Ends(a.l, s, k) \cup Ends(a.r, s, k)
      [] a.t = "Question" -> {k} \cup Ends(a.e, s, k)
      [] a.t = "Plus" -> EndsRepeat(a.e, s, Ends(a.e, s, k))
      [] a.t = "Star" -> EndsRepeat(a.e, s, {k})
      [] a.t = "Hat" -> IF k = 0 THEN {k} ELSE {}
      [] a.t = "Doller" -> IF k = Len(s) \/ s[k + 1] = "\n" THEN {k} ELSE {}

\* The language of a contains the empty string.
RECURSIVE Nullable(_)
Nullable(a) ==
    CASE a.t = "Char" -> FALSE
      [] a.t = "Seq" -> \A k \in 1..Len(a.v) : Nullable(a.v[k])
      [] a.t = "Or" -> Nullable(a.l) \/ Nullable(a.r)
      [] a.t \in {"Question", "Star"} -> TRUE
      [] a.t = "Plus" -> Nullable(a.e)
      [] a.t \in {"Hat", "Doller"} -> TRUE

Postfix == {"+", "*", "?"}
Meta == {"+", "*", "?", "|", "(", ")", "\\"}
Anchors == {"^", "$"}
\* Characters with no meaning to the parser or to the intended anchor syntax.
Ordinary == {"a", "b"}
AllIn(s, S) == \A k \in 1..Len(s) : s[k] \in S
Disjoint(x, w) == \A j \in 1..Len(x), k \in 1..Len(w) : x[j] # w[k]

\* The syntax of a pattern, read off its characters.  Character k (from 1)
\* is a backslash that opens an escape, or the character such a backslash
\* escapes, or a character standing for itself.
RECURSIVE EscOpen(_, _)
EscOpen(p, k) == p[k] = "\\" /\ ~(k > 1 /\ EscOpen(p, k - 1))
Escaped(p, k) == k > 1 /\ EscOpen(p, k - 1)
IsRaw(p, k, c) == p[k] = c /\ ~Escaped(p, k)
\* Unescaped '(' minus unescaped ')' among the first n characters.
Depth(p, n) ==
    Cardinality({k \in 1..n : IsRaw(p, k, "(")}) - Cardinality({k \in 1..n : IsRaw(p, k, ")")})
Balanced(p) == Depth(p, Len(p)) = 0 /\ \A n \in 0..Len(p) : Depth(p, n) >= 0
EscapesOk(p) ==
    \A k \in 1..Len(p) : EscOpen(p, k) => (k < Len(p) /\ IsEscapable(p[k + 1]))
\* Every unescaped '+', '*', '?' and '|' follows an expression: it is not
\* the first character and does not follow an unescaped '(' or '|'.
OpsHavePrev(p) ==
    \A k \in 1..Len(p) :
        (p[k] \in Postfix \cup {"|"} /\ ~Escaped(p, k))
            => (k > 1 /\ ~IsRaw(p, k - 1, "(") /\ ~IsRaw(p, k - 1, "|"))
WellFormed(p) == Balanced(p) /\ EscapesOk(p) /\ OpsHavePrev(p)
\* p with its empty groups, an unescaped '(' directly followed by ')',
\* deleted until none is left.
RECURSIVE Strip(_)
Strip(p) ==
    LET E == {k \in 1..(Len(p) - 1) : IsRaw(p, k, "(") /\ p[k + 1] = ")"}
    IN  IF E = {} THEN p
        ELSE LET k == CHOOSE x \in E : \A y \in E : x <= y
             IN  Strip(SubSeq(p, 1, k - 1) \o SubSeq(p, k + 2, Len(p)))

\* do_matching(expr, line, true) has returned from eval.
DepthDone == stage = "done" /\ is_depth /\ "eval" \in ran

\* ------------------------------------------------- alternations of two
\* Longest of the two sub-patterns joined by '|'.
MaxSub == 3
\* Characters the two sub-patterns are drawn from.
SubChars == {"a", "b", "*", "?", "|"}
\* Every unescaped '|' is followed by an expression.
BarsHaveNext(p) ==
    \A k \in 1..Len(p) :
        IsRaw(p, k, "|") => (k < Len(p) /\ ~IsRaw(p, k + 1, ")") /\ ~IsRaw(p, k + 1, "|"))
\* A pattern fit to stand on either side of a '|': not empty, well-formed,
\* without empty groups and without an empty alternative.
SubPattern(w) == w # <<>> /\ WellFormed(w) /\ Strip(w) = w /\ BarsHaveNext(w)
OrPatterns(n) ==
    LET S == {w \in Words(SubChars, n) : SubPattern(w)}
    IN  {e1 \o <<"|">> \o e2 : e1 \in S, e2 \in S}

InitOr ==
    /\ expr \in OrPatterns(MaxSub)
    /\ line = <<>>
    /\ is_depth = TRUE
    /\ stage = "parse"
    /\ ran = {"parse"}
    /\ i = 0
    /\ seq = <<>>
    /\ seq_or = <<>>
    /\ stack = <<>>
    /\ state = "Char"
    /\ ast = NoAst
    /\ code = <<>>
    /\ genpc = 0
    /\ holes = {}
    /\ frames = <<>>
    /\ ret = "none"
    /\ result = NoRes
    /\ NoFile

NextOr ==
    \/ ParsePsq
    \/ ParseBar
    \/ ParseLiteral
    \/ ParseEnd
    \/ GenCode
    \/ EvalCall
    \/ EvalStep
    \/ EvalSplit
    \/ EvalReturn
    \/ EvalDone

SpecOr == InitOr /\ [][NextOr]_vars

\* The calls the actions carry out step by step end as the function says.
DoMatchingAgrees == stage = "done" => result = do_matching(expr, line, is_depth)

\* ------------------------------------------------------------------ claims

\* C1: an unescaped '+', '*', '?' or '|' read while the sequence accumulator
\* is empty makes do_matching return NoPrev with that character's index, out
\* of the parse stage: code generation and evaluation are never entered.  A
\* pattern that starts with one of the four returns NoPrev(0).
C1_Step ==
    (Scanning /\ state = "Char" /\ Cur \in Postfix \cup {"|"} /\ seq = <<>>)
        => /\ stage' = "done"
           /\ result' = ErrNoPrev(i)
           /\ ran' = {"parse"}
           /\ code' = <<>> /\ frames' = <<>>
C1_Final ==
    /\ (stage = "done" /\ result.kind = "NoPrev") => ran = {"parse"}
    /\ (stage \notin {"parse"} /\ Len(expr) > 0 /\ expr[1] \in Postfix \cup {"|"})
          => (stage = "done" /\ result = ErrNoPrev(0) /\ ran = {"parse"})
\* C1: every such step ends the call with NoPrev(i) in the parse stage, and
\* every call that ended with NoPrev entered no other stage.
C1_NoPrevAtParse == []C1_Final /\ [][C1_Step]_vars
\* A NoPrev raised past the first character, as in "(|" or "a|*".
C1_Witness == stage = "done" /\ result.kind = "NoPrev" /\ result.pos > 0 /\ ran = {"parse"}

\* C2: with w a non-empty word of ordinary characters and x a non-empty word
\* of ordinary characters not in w, "^w", "w$" and "^w$" match w (and "w$"
\* matches w followed by a newline), and do not match x+w, w+x, x+w+x as
\* the claim lists them.
C2_Expected(p, l) ==
    LET hat == Len(p) > 0 /\ p[1] = "^"
        dol == Len(p) > 0 /\ p[Len(p)] = "$"
        w == SubSeq(p, IF hat THEN 2 ELSE 1, IF dol THEN Len(p) - 1 ELSE Len(p))
        n == Len(w)
        IsX(x) == Len(x) > 0 /\ AllIn(x, Ordinary) /\ Disjoint(x, w)
        xw == Len(l) > n /\ SubSeq(l, Len(l) - n + 1, Len(l)) = w
                 /\ IsX(SubSeq(l, 1, Len(l) - n))
        wx == Len(l) > n /\ SubSeq(l, 1, n) = w /\ IsX(SubSeq(l, n + 1, Len(l)))
        xwx == \E m \in 1..Len(l) :
                  /\ Len(l) = n + 2 * m
                  /\ IsX(SubSeq(l, 1, m))
                  /\ SubSeq(l, m + 1, m + n) = w
                  /\ SubSeq(l, m + n + 1, Len(l)) = SubSeq(l, 1, m)
    IN  IF ~((hat \/ dol) /\ n > 0 /\ AllIn(w, Ordinary)) THEN "any"
        ELSE IF l = w THEN "OkTrue"
        ELSE IF dol /\ ~hat /\ l = Append(w, "\n") THEN "OkTrue"
        ELSE IF hat /\ ~dol /\ xw THEN "OkFalse"
        ELSE IF dol /\ ~hat /\ wx THEN "OkFalse"
        ELSE IF hat /\ dol /\ (wx \/ xw \/ xwx) THEN "OkFalse"
        ELSE "any"
\* C2: do_matching(pattern, input, true) returns what the claim lists for
\* each of its anchored pattern / input pairs.
C2_AnchoredMatching ==
    DepthDone => (C2_Expected(expr, line) \in {"any", result.kind})

\* C3 as claimed: Ok(true) exactly when the entire input matches; at Match
\* the scan offset equals the length of the input.
AtMatch == Running /\ Top.pc < Len(code) /\ code[Top.pc + 1].op = "Match"
\* C3 as claimed: sp = len(input) at Match, and Ok(true) iff the whole input
\* is in the pattern's language.
C3_WholeInput ==
    /\ AtMatch => Top.sp = Len(line)
    /\ (DepthDone /\ result.kind \in {"OkTrue", "OkFalse"})
          => (result = OkTrue <=> Len(line) \in Ends(ast, line, 0))
\* C3 as amended: Match is reached only at an offset sp <= len(line) such
\* that the first sp characters of the input match the pattern; Ok(true) is
\* returned only when some prefix of the input matches, Ok(false) only when
\* none does.  Characters after the matched prefix are ignored.
C3_PrefixMatch ==
    /\ AtMatch => (Top.sp <= Len(line) /\ Top.sp \in Ends(ast, line, 0))
    /\ (DepthDone /\ result = OkTrue) => Ends(ast, line, 0) # {}
    /\ (DepthDone /\ result = OkFalse) => Ends(ast, line, 0) = {}
\* Ok(true) for an input with unconsumed trailing characters.
C3_Witness ==
    /\ DepthDone /\ result = OkTrue
    /\ Len(line) \notin Ends(ast, line, 0)

\* C4: a non-empty pattern without metacharacters and anchors matches itself.
C4_RoundTrip ==
    (DepthDone /\ line = expr /\ Len(expr) > 0 /\ AllIn(expr, PatChars \ (Meta \cup Anchors)))
        => result = OkTrue
C4_Witness ==
    /\ DepthDone /\ line = expr /\ Len(expr) = 2 /\ expr[1] # expr[2]
    /\ AllIn(expr, Ordinary) /\ result = OkTrue

\* C5: on the empty input do_matching returns Ok(true) when the pattern's
\* language contains the empty string and Ok(false) when it does not.
C5_EmptyInput ==
    (DepthDone /\ line = <<>>)
        => result = (IF Nullable(ast) THEN OkTrue ELSE OkFalse)

\* C6: a program gen_code returns has every Jump and Split target below its
\* length, no Split or Jump left with the placeholder it was pushed with,
\* and exactly one Match, at the last index.
Generated == stage = "call"
TargetsInBounds ==
    \A k \in 1..Len(code) :
        /\ code[k].op = "Jump" => code[k].x < Len(code)
        /\ code[k].op = "Split" => (code[k].x < Len(code) /\ code[k].y < Len(code))
OneMatchLast ==
    /\ Len(code) > 0
    /\ \A k \in 1..Len(code) : (code[k].op = "Match") <=> (k = Len(code))
\* C6: targets in bounds, no placeholder left, one Match at the last index.
C6_ProgramWellFormed ==
    Generated => (TargetsInBounds /\ holes = {} /\ OneMatchLast)

\* C7 as claimed: a non-empty pattern with balanced parentheses, legal
\* escapes and an expression before every '+', '*', '?' and '|' parses to
\* a tree whose Plus / Star / Question nodes have one child, whose Or nodes
\* have two, and in which no Seq is empty; "()" and "a()" are such patterns.
ParseOk == stage = "gen"
Parsed == stage \in {"gen", "done"}
RECURSIVE TreeOk(_)
TreeOk(a) ==
    CASE a.t = "Char" -> DOMAIN a = {"t", "c"}
      [] a.t \in {"Plus", "Star", "Question"} -> DOMAIN a = {"t", "e"} /\ TreeOk(a.e)
      [] a.t = "Or" -> DOMAIN a = {"t", "l", "r"} /\ TreeOk(a.l) /\ TreeOk(a.r)
      [] a.t = "Seq" -> Len(a.v) > 0 /\ \A k \in 1..Len(a.v) : TreeOk(a.v[k])
      [] OTHER -> FALSE
\* C7 as claimed: every non-empty well-formed pattern parses to a sound tree.
C7_WellFormedAccepted ==
    (Parsed /\ Len(expr) > 0 /\ WellFormed(expr)) => (ParseOk /\ TreeOk(ast))
\* C7 as amended: the same, for the patterns that stay non-empty and
\* well-formed once their empty groups "()" are deleted.
C7_WellFormedNonEmptyAccepted ==
    (Parsed /\ Strip(expr) # <<>> /\ WellFormed(Strip(expr)))
        => (ParseOk /\ TreeOk(ast))
\* An accepted pattern with an empty group, as "a()" or "a()*".
C7_Witness ==
    /\ ParseOk /\ TreeOk(ast) /\ Strip(expr) # expr
    /\ Strip(expr) # <<>> /\ WellFormed(Strip(expr))

\* C8: a ')' read in state Char with an empty stack fails with
\* InvalidRightParen(i); the end of the pattern with a non-empty stack
\* fails with NoRightParen; parse returns Ok only for patterns whose
\* unescaped parentheses are balanced in every prefix and at the end.
C8_RightParenStep ==
    (Scanning /\ state = "Char" /\ Cur = ")" /\ stack = <<>>)
        => (stage' = "done" /\ result' = ErrInvalidRightParen(i))
C8_EndStep ==
    (stage = "parse" /\ i = Len(expr) /\ stack # <<>>)
        => (stage' = "done" /\ result' = ErrNoRightParen)
C8_Final ==
    /\ ParseOk => Balanced(expr)
    /\ stage = "parse" => Len(stack) = Depth(expr, i)
\* C8: the two failure steps, and Ok only for balanced patterns, the stack
\* holding one entry per open unescaped '('.
C8_ParenBalance == []C8_Final /\ [][C8_RightParenStep /\ C8_EndStep]_vars
\* An unmatched ')' after a closed group, as in "(a))".
C8_Witness ==
    /\ stage = "done" /\ result.kind = "InvalidRightParen"
    /\ \E k \in 1..result.pos : IsRaw(expr, k, "(")

\* C9: parse returns Ok only if every backslash that opens an escape is
\* followed by one of \ ( ) | + * ?, which is then appended to seq as a
\* literal with the scanner back in state Char; any other character fails
\* with InvalidEscape(index, character); no accepted pattern ends the scan
\* in state Escape.
C9_EscapeHandling ==
    /\ (stage = "parse" /\ i >= 1 /\ Escaped(expr, i))
          => /\ IsEscapable(expr[i]) /\ state = "Char"
             /\ Len(seq) > 0 /\ seq[Len(seq)] = AstChar(expr[i])
    /\ (stage = "done" /\ result.kind = "InvalidEscape")
          => /\ Escaped(expr, result.pos + 1)
             /\ result.c = expr[result.pos + 1]
             /\ ~IsEscapable(result.c)
    /\ ParseOk => (state = "Char" /\ EscapesOk(expr))

AtDot == Running /\ Top.pc < Len(code) /\ code[Top.pc + 1] = InstChar(".")
C11_Step ==
    AtDot =>
        IF Top.sp < Len(line)
        THEN /\ Len(frames') = Len(frames) /\ ret' = "none"
             /\ frames'[Len(frames')].pc = Top.pc + 1
             /\ frames'[Len(frames')].sp = Top.sp + 1
        ELSE /\ frames' = SubSeq(frames, 1, Len(frames) - 1)
             /\ ret' = "false"
C11_Final ==
    DepthDone =>
        /\ (expr = <<".">> /\ Len(line) = 1) => result = OkTrue
        /\ (expr = <<".">> /\ line = <<>>) => result = OkFalse
        /\ expr = <<".", "*">> => result = OkTrue
\* C11: the wildcard step, and "." matches every one-character input, "."
\* does not match "", ".*" matches every input.
C11_Wildcard == []C11_Final /\ [][C11_Step]_vars
\* "." matched against the input made of one newline.
C11_Witness == DepthDone /\ expr = <<".">> /\ line = <<"\n">> /\ result = OkTrue


\* C12: for every way of reading the pattern as e1 + "|" + e2 with e1 and
\* e2 sub-patterns, do_matching(e1|e2, s, true) ends as
\* do_matching(e2|e1, s, true) does.
Swapped(p, k) == SubSeq(p, k + 1, Len(p)) \o <<"|">> \o SubSeq(p, 1, k - 1)
OrAt(p, k) ==
    /\ IsRaw(p, k, "|")
    /\ SubPattern(SubSeq(p, 1, k - 1))
    /\ SubPattern(SubSeq(p, k + 1, Len(p)))
\* C12: the call on e1|e2 and the call on e2|e1 return the same result.
C12_OrCommutes ==
    (stage = "done" /\ is_depth /\ "eval" \in ran)
        => \A k \in 1..Len(expr) :
              OrAt(expr, k) => result = do_matching(Swapped(expr, k), line, TRUE)
\* The same, among the calls that return on both orders.
OrCommutesWhenBothReturn ==
    (stage = "done" /\ is_depth /\ "eval" \in ran)
        => \A k \in 1..Len(expr) :
              OrAt(expr, k) =>
                  LET r == do_matching(Swapped(expr, k), line, TRUE)
                  IN  "StackOverflow" \in {result.kind, r.kind} \/ result = r


\* C13: an unescaped '^' or '$' read in state Char is appended to seq as a
\* Hat or Doller node, never as a Char node; the program generated for a
\* pattern holds MatchBegin where the pattern has '^', MatchEnd where it
\* has '$', and no Char('^') or Char('$').
AnchorNode(c) == IF c = "^" THEN AstHat ELSE AstDoller
AnchorInst(c) == IF c = "^" THEN InstMatchBegin ELSE InstMatchEnd
HasRaw(p, c) == \E k \in 1..Len(p) : IsRaw(p, k, c)
\* C13: anchors parse to anchor nodes and generate anchor instructions.
C13_AnchorsParsed ==
    /\ (stage = "parse" /\ i >= 1 /\ expr[i] \in Anchors /\ ~Escaped(expr, i))
          => (seq # <<>> /\ seq[Len(seq)] = AnchorNode(expr[i]))
    /\ Generated =>
          /\ \A k \in 1..Len(code) : code[k] \notin {InstChar("^"), InstChar("$")}
          /\ \A c \in Anchors :
                HasRaw(expr, c) => \E k \in 1..Len(code) : code[k] = AnchorInst(c)

\* C14: a call made by a Split starts at the scan offset of the calling
\* attempt and with its count of consumed characters.  No pattern of the
\* model holds a newline, so that count, taken over the whole attempt, is
\* the scan offset: pos = sp in every active call.
C14_StateCopiedAtSplit ==
    stage = "eval" =>
        /\ \A k \in 2..Len(frames) : frames[k].esp = frames[k - 1].sp
        /\ \A k \in 1..Len(frames) : frames[k].pos = frames[k].sp

\* C15: at Split(t1, t2) the attempt from t1 is called first; the attempt
\* from t2 is called only when the call from t1 has returned no-match,
\* never after a match or an error; the Split returns what the last call
\* it made returned; an EvalError is handed upwards unchanged by every
\* caller and becomes the result of the evaluation.
AtSplit == Running /\ Top.pc < Len(code) /\ code[Top.pc + 1].op = "Split"
Returned == stage = "eval" /\ ret # "none" /\ frames # <<>>
IsEvalError(v) == v \in {"InvalidPC", "EvalPCOverFlow", "SPOverFlow", "POSOvreFlow"}
Called(ph, pc, sp) ==
    /\ frames' = Append([frames EXCEPT ![Len(frames)].ph = ph], NewFrame(pc, sp))
    /\ ret' = "none"
NeverReturns == stage' = "done" /\ result'.kind = "StackOverflow"
HandedUp == frames' = SubSeq(frames, 1, Len(frames) - 1) /\ ret' = ret
C15_First ==
    AtSplit => (Called("wait1", code[Top.pc + 1].x, Top.sp) \/ NeverReturns)
C15_Second ==
    (Returned /\ Top.ph = "wait1") =>
        IF ret = "false"
        THEN Called("wait2", code[Top.pc + 1].y, Top.sp) \/ NeverReturns
        ELSE HandedUp
C15_OnlyAfterNoMatch ==
    (Len(frames') > Len(frames) /\ frames # <<>> /\ frames'[Len(frames)].ph = "wait2")
        => (Top.ph = "wait1" /\ ret = "false")
C15_Result == (Returned /\ Top.ph = "wait2") => HandedUp
C15_Error ==
    (stage = "eval" /\ IsEvalError(ret)) =>
        IF frames = <<>>
        THEN stage' = "done" /\ result' = Res(ret, 0, "")
        ELSE HandedUp
\* C15: the order of the two calls of a Split and the way results and
\* errors travel upwards.
C15_SplitOrdering ==
    [][C15_First /\ C15_Second /\ C15_OnlyAfterNoMatch /\ C15_Result /\ C15_Error]_vars
\* The second attempt, called after the first returned no-match, has
\* returned an error to its Split.
C15_Witness ==
    stage = "eval" /\ IsEvalError(ret) /\ frames # <<>> /\ Top.ph = "wait2"

\* C16: every call of eval(program, input, true) on the program of a
\* pattern that parsed and generated returns match, no-match or an
\* EvalError: no call of eval_depth repeats a call that is still active.
C16_DepthFirstTerminates ==
    DepthDone => (result \in {OkTrue, OkFalse} \/ IsEvalError(result.kind))

\* C17: the layout table, with every label counted from the index at which
\* the sub-expression starts in the final program.
RECURSIVE Layout(_, _)
RECURSIVE LayoutSeq(_, _)
LayoutSeq(v, at) ==
    IF v = <<>> THEN <<>>
    ELSE LET c == Layout(Head(v), at) IN c \o LayoutSeq(Tail(v), at + Len(c))
Layout(a, at) ==
    CASE a.t = "Char" -> <<InstChar(a.c)>>
      [] a.t = "Hat" -> <<InstMatchBegin>>
      [] a.t = "Doller" -> <<InstMatchEnd>>
      [] a.t = "Seq" -> LayoutSeq(a.v, at)
      [] a.t = "Or" ->
            LET c1 == Layout(a.l, at + 1)
                l2 == at + 1 + Len(c1) + 1
                c2 == Layout(a.r, l2)
            IN  <<InstSplit(at + 1, l2)>> \o c1 \o <<InstJump(l2 + Len(c2))>> \o c2
      [] a.t = "Plus" ->
            LET c == Layout(a.e, at)
            IN  c \o <<InstSplit(at, at + Len(c) + 1)>>
      [] a.t = "Star" ->
            LET c == Layout(a.e, at + 1)
            IN  <<InstSplit(at + 1, at + 1 + Len(c) + 1)>> \o c \o <<InstJump(at)>>
      [] a.t = "Question" ->
            LET c == Layout(a.e, at + 1)
            IN  <<InstSplit(at + 1, at + 1 + Len(c))>> \o c
RECURSIVE HasAnchor(_)
HasAnchor(a) ==
    CASE a.t \in {"Hat", "Doller"} -> TRUE
      [] a.t = "Char" -> FALSE
      [] a.t = "Seq" -> \E k \in 1..Len(a.v) : HasAnchor(a.v[k])
      [] a.t = "Or" -> HasAnchor(a.l) \/ HasAnchor(a.r)
      [] OTHER -> HasAnchor(a.e)
GenReturned == stage \in {"call", "done"} /\ "gen" \in ran /\ "eval" \notin ran
\* C17: gen_code returns the table's layout of the Ast followed by Match.
C17_LayoutTable ==
    GenReturned => (Generated /\ code = Layout(ast, 0) \o <<InstMatch>>)
\* The same, for the Asts without Hat and Doller.
LayoutTableWithoutAnchors ==
    (GenReturned /\ ~HasAnchor(ast)) => (Generated /\ code = Layout(ast, 0) \o <<InstMatch>>)

\* C18: pc counts the instructions pushed, so gen_code returns with pc
\* equal to the length of the program, and no patch misses its Split or
\* Jump: gen_code never fails with FailOr, FailStar or FailQuestion.
PatchFailures == {"FailOr", "FailStar", "FailQuestion"}
\* C18: pc = number of instructions pushed, and no patch failure.
C18_GeneratorInvariant ==
    GenReturned =>
        /\ result.kind \notin PatchFailures
        /\ Generated => genpc = Len(code)
\* The same, for the Asts without Hat and Doller.
GeneratorInvariantWithoutAnchors ==
    (GenReturned /\ ~HasAnchor(ast)) =>
        /\ result.kind \notin PatchFailures
        /\ Generated => genpc = Len(code)

\* C19: fold_or returns nothing for the empty list, the alternative itself
\* for a list of one, and for a1 .. aN the right-nested
\* Or(a1, Or(a2, ... Or(aN-1, aN))).
RECURSIVE RightNested(_)
RightNested(so) ==
    IF Len(so) = 1 THEN so[1] ELSE AstOr(Head(so), RightNested(Tail(so)))
Folded == stage = "done" /\ ran = {"fold"}
\* C19: the fold rule.
C19_FoldRule ==
    Folded => ast = (IF seq_or = <<>> THEN NoAst ELSE RightNested(seq_or))
\* Three different alternatives folded: Or(a1, Or(a2, a3)).
C19_Witness ==
    /\ Folded /\ Len(seq_or) = 3
    /\ Cardinality({seq_or[1], seq_or[2], seq_or[3]}) = 3
    /\ ast = AstOr(seq_or[1], AstOr(seq_or[2], seq_or[3]))

\* C20: '(' saves seq and seq_or on the stack and empties them; nothing
\* but '(' and ')' changes the stack; a ')' with a non-empty stack removes
\* its top entry and nothing below it, makes the saved seq_or the current
\* one, and makes the saved seq the current one with the fold of the
\* group's alternatives appended, or unchanged when the group has none;
\* a '+', '*' or '?' directly after ')' wraps the last node of that seq.
AtClose == Scanning /\ state = "Char" /\ Cur = ")" /\ stack # <<>>
GroupAlts == IF seq # <<>> THEN Append(seq_or, AstSeq(seq)) ELSE seq_or
C20_OpenStep ==
    (Scanning /\ state = "Char" /\ Cur = "(")
        => /\ stack' = Append(stack, [seq |-> seq, seq_or |-> seq_or])
           /\ seq' = <<>> /\ seq_or' = <<>>
C20_StackDiscipline ==
    stack' # stack => (Scanning /\ state = "Char" /\ Cur \in {"(", ")"})
C20_CloseStep ==
    AtClose =>
        LET top == stack[Len(stack)]
        IN  /\ stack' = SubSeq(stack, 1, Len(stack) - 1)
            /\ seq_or' = top.seq_or
            /\ seq' = IF GroupAlts = <<>> THEN top.seq
                      ELSE Append(top.seq, RightNested(GroupAlts))
            /\ i' = i + 1
            /\ UNCHANGED <<state, stage, ast, result>>
C20_PostfixStep ==
    (Scanning /\ state = "Char" /\ Cur \in Postfix /\ i >= 1 /\ IsRaw(expr, i, ")")
        /\ seq # <<>>)
        => seq' = Append(SubSeq(seq, 1, Len(seq) - 1),
                         [t |-> PsqOf(Cur), e |-> seq[Len(seq)]])
\* The index of the '(' that the ')' at index k closes (indices from 1).
OpenOf(p, k) ==
    CHOOSE j \in 1..(k - 1) :
        /\ IsRaw(p, j, "(") /\ Depth(p, j - 1) = Depth(p, k)
        /\ \A n \in j..(k - 1) : Depth(p, n) > Depth(p, k)
\* Right after a ')' the last node of seq is what parse returns for the
\* text between the parentheses, when that text has an expression at all.
C20_AfterClose ==
    (stage = "parse" /\ i >= 1 /\ IsRaw(expr, i, ")"))
        => LET g == parse(SubSeq(expr, OpenOf(expr, i) + 1, i - 1))
           IN  IF g.ok THEN seq # <<>> /\ seq[Len(seq)] = g.ast
               ELSE g.err = ErrEmpty
\* C20: closing a group restores the saved context with at most the
\* group's node appended, and a postfix operator wraps that node.
C20_GroupClose ==
    /\ []C20_AfterClose
    /\ [][C20_OpenStep /\ C20_StackDiscipline /\ C20_CloseStep /\ C20_PostfixStep]_vars
\* A star read after a group of two alternatives, as in "(a|b)*".
C20_Witness ==
    /\ stage = "parse" /\ i >= 2 /\ expr[i] \in Postfix /\ IsRaw(expr, i - 1, ")")
    /\ seq # <<>> /\ seq[Len(seq)].t = "Star" /\ seq[Len(seq)].e.t = "Or"

\* C21: match_file calls do_matching on the rests of each line from the
\* offsets 0, 1, .. in that order, lines in file order and empty lines
\* skipped; after Ok(false) the next offset (or line) follows, after
\* Ok(true) the line is printed once and the next line follows, after an
\* Err no call follows and match_file returns it.
RestOf(l, k) == SubSeq(l, k + 1, Len(l))
NoLineBetween(a, b) == \A n \in (a + 1)..(b - 1) : file[n + 1] = <<>>
C21_CallOrder ==
    \A k \in 1..Len(calls) :
        LET c == calls[k]
        IN  /\ c.lno < Len(file) /\ c.off < Len(file[c.lno + 1])
            /\ c.r = do_matching(expr, RestOf(file[c.lno + 1], c.off), TRUE)
            /\ IF k = 1
               THEN c.off = 0 /\ NoLineBetween(-1, c.lno)
               ELSE LET p == calls[k - 1]
                    IN  /\ p.r \in {OkTrue, OkFalse}
                        /\ IF p.r = OkFalse /\ p.off + 1 < Len(file[p.lno + 1])
                           THEN c.lno = p.lno /\ c.off = p.off + 1
                           ELSE c.off = 0 /\ c.lno > p.lno /\ NoLineBetween(p.lno, c.lno)
C21_Printed ==
    LET Hit(c) == c.r = OkTrue
        hits == SelectSeq(calls, Hit)
    IN  /\ printed = [k \in 1..Len(hits) |-> file[hits[k].lno + 1]]
        /\ \A j, k \in 1..Len(hits) : j < k => hits[j].lno < hits[k].lno
C21_Return ==
    /\ mfret = OkUnit =>
          LET Matches(l) ==
                  \E k \in 0..(Len(l) - 1) : do_matching(expr, RestOf(l, k), TRUE) = OkTrue
          IN  /\ \A k \in 1..Len(calls) : calls[k].r \in {OkTrue, OkFalse}
              /\ printed = SelectSeq(file, Matches)
    /\ mfret \notin {NoRes, OkUnit} =>
          /\ calls # <<>> /\ calls[Len(calls)].r = mfret
          /\ mfret \notin {OkTrue, OkFalse}
          /\ lno = calls[Len(calls)].lno /\ off = calls[Len(calls)].off
\* C21: the order of the calls, the lines printed, and the return.
C21_DriverOrdering ==
    stage = "file" => (C21_CallOrder /\ C21_Printed /\ C21_Return)
\* A first line tried at both offsets without a match, a second line
\* printed on the match at its offset 1.
C21_Witness ==
    /\ stage = "file" /\ mfret = OkUnit /\ Len(file) = 2 /\ Len(calls) = 4
    /\ calls[2].r = OkFalse /\ calls[2].lno = 0 /\ calls[2].off = 1
    /\ calls[4].r = OkTrue /\ calls[4].lno = 1 /\ calls[4].off = 1
    /\ printed = <<file[2]>>

=============================================================================
